---- MODULE Spec2Model ----
(***************************************************************************)
(* Model of the manga-frame-reshuffle scripts.                             *)
(*                                                                         *)
(*   src/shuffler/shuffler.py  block reshuffler, joiner, file resolver and *)
(*                             the pipeline of main()                      *)
(*   src/shuffler.py           the older script: same reshuffle_image, its *)
(*                             own is_file_exist / load_files              *)
(*                                                                         *)
(* An image buffer is a record [h, w, c, px]: px[r][x] is the pixel of row *)
(* r and column x (both counted from 0), a sequence of c uint8 samples.    *)
(* numpy's slicing and slice assignment are modelled by what they do:      *)
(* slice bounds are clamped to the axis, and an assignment whose value     *)
(* cannot be broadcast to the target's shape raises ValueError.            *)
(***************************************************************************)
EXTENDS Integers, Sequences, FiniteSets, TLC

VARIABLES
    image,      \* reshuffle_image's argument `image`
    settings,   \* the Settings namedtuple (b_height, b_width, h_blocks, v_blocks, bp)
    out1,       \* outcome of reshuffle_image(image, settings)
    out2,       \* outcome of reshuffle_image(out1, settings)
    rpc,        \* how many times reshuffle_image has been applied
    file_list,          \* main: args.files (empty when --folder is used)
    folder_path,        \* main: args.folder (empty when --files is used)
    join_enabled,       \* main: args.join
    image_list,         \* main: the paths load_files returned
    reshuffled_images,  \* process_images: the list being built
    to_save,            \* the (name, image) pairs handed to save_image, in order
    written,            \* the files save_image wrote, in order: [name, img]
    join_called,        \* whether join_images was called
    pc,                 \* position of main
    failure             \* the exception that ended the run, "none" otherwise

reshuffleVars == <<image, out1, out2, rpc>>
pipelineVars == <<file_list, folder_path, join_enabled, image_list, reshuffled_images,
                  to_save, written, join_called, pc, failure>>
vars == <<image, settings, out1, out2, rpc, file_list, folder_path, join_enabled,
          image_list, reshuffled_images, to_save, written, join_called, pc, failure>>

\* ------------------------------------------------------------------ bounds
MaxH == 5
MaxW == 4
MaxB == 2
MaxCount == 2
MaxBp == 2
MaxSeed == 1
MaxFiles == 3

\* ------------------------------------------------------------ small helpers
Min(a, b) == IF a <= b THEN a ELSE b
Max(a, b) == IF a >= b THEN a ELSE b

\* ------------------------------------------------------------- image buffers
\* A decoded picture: sample k of pixel (r, x) is a uint8 that depends on the
\* position, so that (for seed > 0) moved pixels can be told apart.
Sample(seed, w, c, r, x, k) == (seed * (1 + (r * w + x) * c + (k - 1))) % 256

MakeImage(seed, h, w, c) ==
    [h |-> h, w |-> w, c |-> c,
     px |-> [r \in 0..(h - 1) |-> [x \in 0..(w - 1) |->
                [k \in 1..c |-> Sample(seed, w, c, r, x, k)]]]]

\* np.zeros(image.shape, np.uint8)
Zeros(img) ==
    [h |-> img.h, w |-> img.w, c |-> img.c,
     px |-> [r \in 0..(img.h - 1) |-> [x \in 0..(img.w - 1) |->
                [k \in 1..img.c |-> 0]]]]

\* ------------------------------------------------------------ numpy slicing
\* Mutant of Slice: the upper clamp is one short of the axis.
Slice_OneShort(lo, hi, n) ==
    [lo |-> Min(lo, n - 1), hi |-> Max(Min(lo, n - 1), Min(hi, n - 1))]

\* a[lo:hi] on an axis of length n, for lo, hi >= 0: both ends are clamped.
Slice(lo, hi, n) == [lo |-> Min(lo, n), hi |-> Max(Min(lo, n), Min(hi, n))]

SliceLen(s) == s.hi - s.lo

\* Mutant of TailSlice: the strip starts one row too low.
TailSlice_OneRowShort(bp, n) ==
    [lo |-> IF bp = 0 THEN 0 ELSE Min(Max(n - bp, 0) + 1, n), hi |-> n]

\* a[-bp:] on an axis of length n.  -0 is 0, so bp = 0 selects the whole axis;
\* a bp larger than n is clamped to the whole axis as well.
TailSlice(bp, n) == [lo |-> IF bp = 0 THEN 0 ELSE Max(n - bp, 0), hi |-> n]

\* Mutant of Broadcastable: only equal extents are accepted.
Broadcastable_EqualOnly(sn, dn) == sn = dn

\* Whether a value of extent sn can be assigned to a target of extent dn
\* along one axis: numpy broadcasts the value to the target's shape.
Broadcastable(sn, dn) == sn = dn \/ sn = 1

\* Index in the value that lands on offset d of the target along one axis.
BroadcastIndex(s, d) == IF SliceLen(s) = 1 THEN s.lo ELSE s.lo + d

\* dst[dr, dc] = src[sr, sc], shapes already known to be compatible.
SetItem(dst, dr, dc, src, sr, sc) ==
    [dst EXCEPT !.px =
        [r \in 0..(dst.h - 1) |-> [x \in 0..(dst.w - 1) |->
            IF r >= dr.lo /\ r < dr.hi /\ x >= dc.lo /\ x < dc.hi
            THEN src.px[BroadcastIndex(sr, r - dr.lo)][BroadcastIndex(sc, x - dc.lo)]
            ELSE dst.px[r][x]]]]

\* ---------------------------------------------------------- reshuffle_image
\* processed_image[-bp:, :] = image[-bp:, :]
FillBottom(out, img, s) ==
    SetItem(out, TailSlice(s.bp, out.h), Slice(0, out.w, out.w),
            img, TailSlice(s.bp, img.h), Slice(0, img.w, img.w))

\* The four slices of the loop body for the grid pair (i, j).
DstRows(img, s, i, j) == Slice(j * s.b_height, j * s.b_height + s.b_height, img.h)
DstCols(img, s, i, j) == Slice(i * s.b_width, i * s.b_width + s.b_width, img.w)
\* Mutant of SrcRows: the source rows follow j, so no block changes its row.
SrcRows_Untransposed(img, s, i, j) ==
    Slice(j * s.b_height, j * s.b_height + s.b_height, img.h)

SrcRows(img, s, i, j) == Slice(i * s.b_height, i * s.b_height + s.b_height, img.h)
SrcCols(img, s, i, j) == Slice(j * s.b_width, j * s.b_width + s.b_width, img.w)

\* Whether the assignment of the pair (i, j) raises ValueError.
BlockRaises(img, s, i, j) ==
    \/ ~Broadcastable(SliceLen(SrcRows(img, s, i, j)), SliceLen(DstRows(img, s, i, j)))
    \/ ~Broadcastable(SliceLen(SrcCols(img, s, i, j)), SliceLen(DstCols(img, s, i, j)))

\* One pass of the loop body.
CopyBlock(out, img, s, i, j) ==
    SetItem(out, DstRows(img, s, i, j), DstCols(img, s, i, j),
            img, SrcRows(img, s, i, j), SrcCols(img, s, i, j))

\* for i in range(h_blocks): for j in range(v_blocks): ...   The pairs are
\* visited in the order n = i * v_blocks + j; the first failing assignment
\* raises and nothing is returned.
RECURSIVE BlockLoop(_, _, _, _)
BlockLoop(out, img, s, n) ==
    IF n >= s.h_blocks * s.v_blocks
    THEN [err |-> FALSE, img |-> out]
    ELSE LET i == n \div s.v_blocks
             j == n % s.v_blocks
         IN  IF BlockRaises(img, s, i, j)
             THEN [err |-> TRUE, img |-> out]
             ELSE BlockLoop(CopyBlock(out, img, s, i, j), img, s, n + 1)

\* Mutant of reshuffle_image: the bottom margin is filled after the blocks.
reshuffle_image_MarginLast(img, s) ==
    LET r == BlockLoop(Zeros(img), img, s, 0)
    IN  [err |-> r.err, img |-> FillBottom(r.img, img, s)]

\* reshuffle_image(image, settings): err is TRUE when ValueError is raised (img
\* is then the abandoned local buffer, which the caller never sees).
reshuffle_image(img, s) == BlockLoop(FillBottom(Zeros(img), img, s), img, s, 0)

\* --------------------------------------------------------- reshuffle: spec
SettingsSet ==
    [b_height : 1..MaxB, b_width : 1..MaxB,
     h_blocks : 1..MaxCount, v_blocks : 1..MaxCount, bp : 0..MaxBp]

InitReshuffle ==
    /\ \E seed \in 0..MaxSeed, h \in 1..MaxH, w \in 1..MaxW :
            image = MakeImage(seed, h, w, 1)
    /\ settings \in SettingsSet
    /\ out1 = [err |-> FALSE, img |-> image]
    /\ out2 = [err |-> FALSE, img |-> image]
    /\ rpc = "start"
    /\ file_list = <<>> /\ folder_path = <<>> /\ join_enabled = FALSE
    /\ image_list = <<>> /\ reshuffled_images = <<>> /\ to_save = <<>>
    /\ written = <<>> /\ join_called = FALSE /\ pc = "idle" /\ failure = "none"

ReshuffleOnce ==
    /\ rpc = "start"
    /\ out1' = reshuffle_image(image, settings)
    /\ rpc' = "once"
    /\ UNCHANGED <<image, settings, out2>>
    /\ UNCHANGED pipelineVars

ReshuffleTwice ==
    /\ rpc = "once"
    /\ ~out1.err
    /\ out2' = reshuffle_image(out1.img, settings)
    /\ rpc' = "twice"
    /\ UNCHANGED <<image, settings, out1>>
    /\ UNCHANGED pipelineVars

NextReshuffle == ReshuffleOnce \/ ReshuffleTwice

SpecReshuffle == InitReshuffle /\ [][NextReshuffle]_vars

\* ------------------------------------------------------------------ paths
\* A path is the sequence of its pieces: names, "." and "/".
LastIndexOf(seq, tok) ==
    LET hits == {k \in 1..Len(seq) : seq[k] = tok}
    IN  IF hits = {} THEN 0 ELSE CHOOSE k \in hits : \A m \in hits : m <= k

\* Path(p).name: the final component.
PathName(p) == SubSeq(p, LastIndexOf(p, "/") + 1, Len(p))

\* Path(p).suffix: from the last dot of the name on, unless that dot is the
\* first or the last character of the name.
PathSuffix(p) ==
    LET name == PathName(p)
        dot == LastIndexOf(name, ".")
    IN  IF dot > 1 /\ dot < Len(name) THEN SubSeq(name, dot, Len(name)) ELSE <<>>

\* Path(p).stem: the name without its suffix.
PathStem(p) ==
    LET name == PathName(p)
        dot == LastIndexOf(name, ".")
    IN  IF dot > 1 /\ dot < Len(name) THEN SubSeq(name, 1, dot - 1) ELSE name

\* Path(folder).joinpath(name)
JoinPath(folder, name) == folder \o <<"/">> \o name

IMAGE_EXTS == {<<".", "png">>, <<".", "jpg">>, <<".", "jpeg">>}

\* ------------------------------------------------------------ file system
\* The files the runs find on disk.  kind: "image" (decodable), "corrupt" (a
\* file the codec rejects), "other" (a file that is no image), "dir".
\* Anything else is missing.
Disk ==
    (<<"a", ".", "png">>  :> [kind |-> "image", img |-> MakeImage(1, 2, 2, 1)]) @@
    (<<"b", ".", "jpg">>  :> [kind |-> "image", img |-> MakeImage(2, 2, 3, 1)]) @@
    (<<"c", ".", "jpeg">> :> [kind |-> "image", img |-> MakeImage(3, 3, 2, 1)]) @@
    (<<"d", ".", "PNG">>  :> [kind |-> "image", img |-> MakeImage(4, 2, 2, 1)]) @@
    (<<"e", ".", "txt">>  :> [kind |-> "other", img |-> MakeImage(0, 1, 1, 1)]) @@
    (<<"f", ".", "png">>  :> [kind |-> "corrupt", img |-> MakeImage(0, 1, 1, 1)]) @@
    (<<"h", ".", "png">>  :> [kind |-> "dir", img |-> MakeImage(0, 1, 1, 1)]) @@
    (<<"pics">>           :> [kind |-> "dir", img |-> MakeImage(0, 1, 1, 1)]) @@
    (<<"empty">>          :> [kind |-> "dir", img |-> MakeImage(0, 1, 1, 1)]) @@
    (<<"pics", "/", "x", ".", "y", ".", "png">>
                          :> [kind |-> "image", img |-> MakeImage(5, 2, 2, 2)]) @@
    (<<"pics", "/", "notes", ".", "txt">>
                          :> [kind |-> "other", img |-> MakeImage(0, 1, 1, 1)]) @@
    (<<"pics", "/", ".", "png">>
                          :> [kind |-> "other", img |-> MakeImage(0, 1, 1, 1)])

FileKind(p) == IF p \in DOMAIN Disk THEN Disk[p].kind ELSE "missing"

\* Path(p).is_file() / os.path.isfile(p)
IsFile(p) == FileKind(p) \in {"image", "corrupt", "other"}

\* Path(p).is_dir() / os.path.isdir(p)
IsDir(p) == FileKind(p) = "dir"

\* The entries of a directory, as names, in the order the system lists them.
DirEntries(folder) ==
    IF folder = <<"pics">>
    THEN << <<".", "png">>, <<"notes", ".", "txt">>, <<"x", ".", "y", ".", "png">> >>
    ELSE <<>>

\* Path(folder).iterdir(): the entries as paths under the folder.
IterDir(folder) ==
    [k \in 1..Len(DirEntries(folder)) |-> JoinPath(folder, DirEntries(folder)[k])]

\* The paths a user may pass to --files, and the folders to --folder.
FilePaths ==
    { <<"a", ".", "png">>, <<"b", ".", "jpg">>, <<"c", ".", "jpeg">>, <<"d", ".", "PNG">>,
      <<"e", ".", "txt">>, <<"f", ".", "png">>, <<"g", ".", "png">>, <<"h", ".", "png">>,
      <<"pics", "/", "x", ".", "y", ".", "png">> }

FolderPaths == { <<"pics">>, <<"empty">>, <<"nodir">>, <<"e", ".", "txt">> }

\* ------------------------------------------ src/shuffler/shuffler.py: resolver
is_file_exist(path) == IsFile(path)

\* The loop of load_files: keeps, in order, the paths that pass both tests.
RECURSIVE KeepImages(_)
KeepImages(list) ==
    IF list = <<>> THEN <<>>
    ELSE IF ~is_file_exist(Head(list)) \/ PathSuffix(Head(list)) \notin IMAGE_EXTS
         THEN KeepImages(Tail(list))
         ELSE <<Head(list)>> \o KeepImages(Tail(list))

\* load_files(file_list): raises NoImagesError when nothing is kept.
load_files(list) ==
    LET kept == KeepImages(list)
    IN  [raised |-> kept = <<>>, files |-> kept]

load_files_from_folder(path) == load_files(IterDir(path))

\* ----------------------------------------------------------------- joiner
\* Mutant of Hstack2: the second buffer comes first.
Hstack2_Swapped(a, b) ==
    IF a.h # b.h \/ a.c # b.c
    THEN [err |-> TRUE, img |-> a]
    ELSE [err |-> FALSE,
          img |-> [h |-> a.h, w |-> a.w + b.w, c |-> a.c,
                   px |-> [r \in 0..(a.h - 1) |-> [x \in 0..(a.w + b.w - 1) |->
                              IF x < b.w THEN b.px[r][x] ELSE a.px[r][x - b.w]]]]]

\* np.hstack of two buffers: concatenation along the columns; the other two
\* extents must agree, or ValueError is raised.
Hstack2(a, b) ==
    IF a.h # b.h \/ a.c # b.c
    THEN [err |-> TRUE, img |-> a]
    ELSE [err |-> FALSE,
          img |-> [h |-> a.h, w |-> a.w + b.w, c |-> a.c,
                   px |-> [r \in 0..(a.h - 1) |-> [x \in 0..(a.w + b.w - 1) |->
                              IF x < a.w THEN a.px[r][x] ELSE b.px[r][x - a.w]]]]]

\* join_images(image_list), called with two images.
join_images(list) == Hstack2(list[1], list[2])

\* ------------------------------------------------------------------ saving
\* save_image(name, image, save_location): the file it writes.
SavedFile(name, img) == [name |-> <<"reshuffled_">> \o name, img |-> img]

\* name = f'{image_list[0].stem}_{image_list[1].name}'
JoinedName(paths) == PathStem(paths[1]) \o <<"_">> \o PathName(paths[2])

\* Mutant of JoinDecision: two or more images are joined.
JoinDecision_AtLeastTwo(images, join) == Len(images) >= 2 /\ join

\* len(reshuffled_images) == 2 and join_enabled
JoinDecision(images, join) == Len(images) = 2 /\ join

\* --------------------------------------------------------- pipeline: main()
\* The settings the runs use: a grid that fits every image on disk, and a
\* grid that fits some of them only.
PipelineSettings ==
    { [b_height |-> 1, b_width |-> 1, h_blocks |-> 2, v_blocks |-> 2, bp |-> 0],
      [b_height |-> 1, b_width |-> 1, h_blocks |-> 3, v_blocks |-> 2, bp |-> 1] }

FileLists == UNION {[1..n -> FilePaths] : n \in 1..MaxFiles}

InitMain ==
    /\ \/ file_list \in FileLists /\ folder_path = <<>>
       \/ file_list = <<>> /\ folder_path \in FolderPaths
    /\ join_enabled \in BOOLEAN
    /\ settings \in PipelineSettings
    /\ image_list = <<>>
    /\ reshuffled_images = <<>>
    /\ to_save = <<>>
    /\ written = <<>>
    /\ join_called = FALSE
    /\ pc = "resolve"
    /\ failure = "none"
    /\ image = MakeImage(0, 1, 1, 1)
    /\ out1 = [err |-> FALSE, img |-> image]
    /\ out2 = [err |-> FALSE, img |-> image]
    /\ rpc = "idle"

Abort(why) ==
    /\ pc' = "aborted"
    /\ failure' = why

\* if file_list: image_list = load_files(file_list)
ResolveFiles ==
    /\ pc = "resolve"
    /\ file_list # <<>>
    /\ LET r == load_files(file_list)
       IN  IF r.raised
           THEN Abort("NoImagesError") /\ UNCHANGED image_list
           ELSE image_list' = r.files /\ pc' = "process" /\ UNCHANGED failure
    /\ UNCHANGED <<file_list, folder_path, join_enabled, settings, reshuffled_images,
                   to_save, written, join_called>>
    /\ UNCHANGED reshuffleVars

\* elif folder_path: is_folder_exist(folder_path); load_files_from_folder(...)
ResolveFolder ==
    /\ pc = "resolve"
    /\ file_list = <<>>
    /\ folder_path # <<>>
    /\ IF ~IsDir(folder_path)
       THEN Abort("FileNotFoundError") /\ UNCHANGED image_list
       ELSE LET r == load_files_from_folder(folder_path)
            IN  IF r.raised
                THEN Abort("NoImagesError") /\ UNCHANGED image_list
                ELSE image_list' = r.files /\ pc' = "process" /\ UNCHANGED failure
    /\ UNCHANGED <<file_list, folder_path, join_enabled, settings, reshuffled_images,
                   to_save, written, join_called>>
    /\ UNCHANGED reshuffleVars

\* Mutant of ProcessImage: every image is written as soon as it is reshuffled.
ProcessImage_SaveAsYouGo ==
    /\ pc = "process"
    /\ Len(reshuffled_images) < Len(image_list)
    /\ LET path == image_list[Len(reshuffled_images) + 1]
       IN  IF FileKind(path) # "image"
           THEN Abort("DecodeError") /\ UNCHANGED <<reshuffled_images, written>>
           ELSE LET r == reshuffle_image(Disk[path].img, settings)
                IN  IF r.err
                    THEN Abort("ValueError") /\ UNCHANGED <<reshuffled_images, written>>
                    ELSE /\ reshuffled_images' = Append(reshuffled_images, r.img)
                         /\ written' = Append(written, SavedFile(PathName(path), r.img))
                         /\ UNCHANGED <<pc, failure>>
    /\ UNCHANGED <<file_list, folder_path, join_enabled, settings, image_list,
                   to_save, join_called>>
    /\ UNCHANGED reshuffleVars

\* One pass of the loop of process_images: decode the next path, reshuffle
\* it, append the result.  A file the codec rejects, or a ValueError of
\* reshuffle_image, ends the run.
ProcessImage ==
    /\ pc = "process"
    /\ Len(reshuffled_images) < Len(image_list)
    /\ LET path == image_list[Len(reshuffled_images) + 1]
       IN  IF FileKind(path) # "image"
           THEN Abort("DecodeError") /\ UNCHANGED reshuffled_images
           ELSE LET r == reshuffle_image(Disk[path].img, settings)
                IN  IF r.err
                    THEN Abort("ValueError") /\ UNCHANGED reshuffled_images
                    ELSE /\ reshuffled_images' = Append(reshuffled_images, r.img)
                         /\ UNCHANGED <<pc, failure>>
    /\ UNCHANGED <<file_list, folder_path, join_enabled, settings, image_list,
                   to_save, written, join_called>>
    /\ UNCHANGED reshuffleVars

\* The if / else of main after process_images returned: either join the two
\* images under the joined name, or pair every image with its file's name.
JoinOrList ==
    /\ pc = "process"
    /\ Len(reshuffled_images) = Len(image_list)
    /\ IF JoinDecision(reshuffled_images, join_enabled)
       THEN /\ join_called' = TRUE
            /\ LET r == join_images(reshuffled_images)
               IN  IF r.err
                   THEN Abort("ValueError") /\ UNCHANGED to_save
                   ELSE /\ to_save' = << [name |-> JoinedName(image_list), img |-> r.img] >>
                        /\ pc' = "save"
                        /\ UNCHANGED failure
       ELSE /\ to_save' = [k \in 1..Len(image_list) |->
                              [name |-> PathName(image_list[k]),
                               img |-> reshuffled_images[k]]]
            /\ pc' = "save"
            /\ UNCHANGED <<failure, join_called>>
    /\ UNCHANGED <<file_list, folder_path, join_enabled, settings, image_list,
                   reshuffled_images, written>>
    /\ UNCHANGED reshuffleVars

\* save_image for the next pair.
SaveImage ==
    /\ pc = "save"
    /\ Len(written) < Len(to_save)
    /\ LET item == to_save[Len(written) + 1]
       IN  written' = Append(written, SavedFile(item.name, item.img))
    /\ pc' = IF Len(written) + 1 = Len(to_save) THEN "done" ELSE "save"
    /\ UNCHANGED <<file_list, folder_path, join_enabled, settings, image_list,
                   reshuffled_images, to_save, join_called, failure>>
    /\ UNCHANGED reshuffleVars

\* The encoder fails on the next pair (image.save raises).
SaveFails ==
    /\ pc = "save"
    /\ Len(written) < Len(to_save)
    /\ Abort("EncodeError")
    /\ UNCHANGED <<file_list, folder_path, join_enabled, settings, image_list,
                   reshuffled_images, to_save, written, join_called>>
    /\ UNCHANGED reshuffleVars

Next == ResolveFiles \/ ResolveFolder \/ ProcessImage \/ JoinOrList \/ SaveImage \/ SaveFails

Init == InitMain

Spec == Init /\ [][Next]_vars

\* ------------------------------------------------ src/shuffler.py (older script)
\* os.path.splitext(p)[1]: from the last dot of the name on, when a piece
\* other than a dot precedes it in the name.
SplitExt(p) ==
    LET name == PathName(p)
        dot == LastIndexOf(name, ".")
    IN  IF dot > 0 /\ \E k \in 1..(dot - 1) : name[k] # "."
        THEN SubSeq(name, dot, Len(name))
        ELSE <<>>

\* def is_file_exist(path): return not os.path.isfile(path)
legacy_is_file_exist(path) == ~IsFile(path)

RECURSIVE LegacyKeepImages(_)
LegacyKeepImages(list) ==
    IF list = <<>> THEN <<>>
    ELSE IF ~legacy_is_file_exist(Head(list)) \/ SplitExt(Head(list)) \notin IMAGE_EXTS
         THEN LegacyKeepImages(Tail(list))
         ELSE <<Head(list)>> \o LegacyKeepImages(Tail(list))

legacy_load_files(list) ==
    LET kept == LegacyKeepImages(list)
    IN  [raised |-> kept = <<>>, files |-> kept]

\* load_files(os.listdir(path)): the entries as bare names.
legacy_load_files_from_folder(path) == legacy_load_files(DirEntries(path))

LegacyResolveFiles ==
    /\ pc = "resolve"
    /\ file_list # <<>>
    /\ LET r == legacy_load_files(file_list)
       IN  IF r.raised
           THEN Abort("NoImagesError") /\ UNCHANGED image_list
           ELSE image_list' = r.files /\ pc' = "process" /\ UNCHANGED failure
    /\ UNCHANGED <<file_list, folder_path, join_enabled, settings, reshuffled_images,
                   to_save, written, join_called>>
    /\ UNCHANGED reshuffleVars

LegacyResolveFolder ==
    /\ pc = "resolve"
    /\ file_list = <<>>
    /\ folder_path # <<>>
    /\ IF ~IsDir(folder_path)
       THEN Abort("FileNotFoundError") /\ UNCHANGED image_list
       ELSE LET r == legacy_load_files_from_folder(folder_path)
            IN  IF r.raised
                THEN Abort("NoImagesError") /\ UNCHANGED image_list
                ELSE image_list' = r.files /\ pc' = "process" /\ UNCHANGED failure
    /\ UNCHANGED <<file_list, folder_path, join_enabled, settings, reshuffled_images,
                   to_save, written, join_called>>
    /\ UNCHANGED reshuffleVars

\* One pass of the loop of main: Path(folder_path).joinpath(image_path) raises
\* TypeError when --files was used (folder_path is None); otherwise the file
\* under the folder is decoded and reshuffled.
LegacyProcessImage ==
    /\ pc = "process"
    /\ Len(reshuffled_images) < Len(image_list)
    /\ IF folder_path = <<>>
       THEN Abort("TypeError") /\ UNCHANGED reshuffled_images
       ELSE LET path == JoinPath(folder_path, image_list[Len(reshuffled_images) + 1])
            IN  IF FileKind(path) # "image"
                THEN Abort("DecodeError") /\ UNCHANGED reshuffled_images
                ELSE LET r == reshuffle_image(Disk[path].img, settings)
                     IN  IF r.err
                         THEN Abort("ValueError") /\ UNCHANGED reshuffled_images
                         ELSE /\ reshuffled_images' = Append(reshuffled_images, r.img)
                              /\ UNCHANGED <<pc, failure>>
    /\ UNCHANGED <<file_list, folder_path, join_enabled, settings, image_list,
                   to_save, written, join_called>>
    /\ UNCHANGED reshuffleVars

\* save_images(processed_images, save_location): the (name, img) pairs.
LegacyList ==
    /\ pc = "process"
    /\ Len(reshuffled_images) = Len(image_list)
    /\ to_save' = [k \in 1..Len(image_list) |->
                      [name |-> PathName(image_list[k]), img |-> reshuffled_images[k]]]
    /\ pc' = "save"
    /\ UNCHANGED <<file_list, folder_path, join_enabled, settings, image_list,
                   reshuffled_images, written, join_called, failure>>
    /\ UNCHANGED reshuffleVars

NextLegacy ==
    \/ LegacyResolveFiles \/ LegacyResolveFolder \/ LegacyProcessImage
    \/ LegacyList \/ SaveImage \/ SaveFails

SpecLegacy == InitMain /\ [][NextLegacy]_vars

\* ------------------------------------------------- vocabulary of the claims
\* The grid pairs (i, j) of section 4.1 for the current settings.
Pairs == (0..(settings.h_blocks - 1)) \X (0..(settings.v_blocks - 1))

\* Pixel (r, x) lies in the destination region of the pair (i, j).
InDest(r, x, i, j) ==
    /\ j * settings.b_height <= r /\ r < j * settings.b_height + settings.b_height
    /\ i * settings.b_width <= x /\ x < i * settings.b_width + settings.b_width

InSomeDest(r, x) == \E p \in Pairs : InDest(r, x, p[1], p[2])

\* Every source region and every destination region lies inside the image.
AllRegionsInside ==
    \A p \in Pairs :
        /\ p[1] * settings.b_height + settings.b_height <= image.h   \* source rows
        /\ p[2] * settings.b_width + settings.b_width <= image.w     \* source columns
        /\ p[2] * settings.b_height + settings.b_height <= image.h   \* destination rows
        /\ p[1] * settings.b_width + settings.b_width <= image.w     \* destination columns

\* How many indices of [lo, lo + len) exist on an axis of length n.
Extent(lo, len, n) == IF lo >= n THEN 0 ELSE Min(lo + len, n) - lo

\* The source index that offset d of a block starting at lo supplies on an
\* axis of length n: the index at the same offset, or, where the image edge
\* cut the source block to one index, that index again.
SourceIndex(lo, d, n) == IF lo + d < n THEN lo + d ELSE lo

\* The content the pair (i, j) copies to the pixel (r, x) of its destination.
BlockContent(r, x, i, j) ==
    image.px[SourceIndex(i * settings.b_height, r - j * settings.b_height, image.h)]
            [SourceIndex(j * settings.b_width, x - i * settings.b_width, image.w)]

ZeroPixel == [k \in 1..image.c |-> 0]

Applied == rpc \in {"once", "twice"}

\* ------------------------------------------------------------------- C1
\* C1: when every source and destination region lies inside the image,
\* reshuffle_image returns a buffer whose rows [j*bh, j*bh+bh) x columns
\* [i*bw, i*bw+bw) equal, pixel for pixel, the input's rows [i*bh, i*bh+bh) x
\* columns [j*bw, j*bw+bw), for every grid pair (i, j).
C1_TranspositionMapping ==
    (Applied /\ AllRegionsInside) =>
        /\ ~out1.err
        /\ \A p \in Pairs :
             \A dr \in 0..(settings.b_height - 1), dc \in 0..(settings.b_width - 1) :
                out1.img.px[p[2] * settings.b_height + dr][p[1] * settings.b_width + dc]
                  = image.px[p[1] * settings.b_height + dr][p[2] * settings.b_width + dc]

\* The concrete case of section 8.3: a 2 x 2 grid of 2 x 2 blocks, bp = 0, on
\* an image of distinct markers, and the off-diagonal blocks did move.
C1_Witness ==
    /\ rpc = "once" /\ AllRegionsInside /\ ~out1.err
    /\ settings = [b_height |-> 2, b_width |-> 2, h_blocks |-> 2, v_blocks |-> 2, bp |-> 0]
    /\ image.h = 4 /\ image.w = 4
    /\ image.px[0][2] # image.px[2][0]
    /\ out1.img.px[2][0] = image.px[0][2]
    /\ out1.img.px[0][2] = image.px[2][0]

\* ------------------------------------------------------------------- C2
\* C2: for 0 < bp <= height, in the buffer reshuffle_image returns every
\* pixel of the last bp rows that lies in no destination region equals the
\* input pixel at the same position, and every pixel of the last bp rows
\* inside a destination region carries the block content copied there.
C2_MarginFidelity ==
    (Applied /\ ~out1.err /\ 0 < settings.bp /\ settings.bp <= image.h) =>
        \A r \in (image.h - settings.bp)..(image.h - 1), x \in 0..(image.w - 1) :
            /\ ~InSomeDest(r, x) => out1.img.px[r][x] = image.px[r][x]
            /\ \A p \in Pairs :
                 InDest(r, x, p[1], p[2]) => out1.img.px[r][x] = BlockContent(r, x, p[1], p[2])

\* A margin row holds both a pixel kept from the input outside every
\* destination region and a pixel where a moved block replaced the margin.
C2_Witness ==
    /\ rpc = "once" /\ ~out1.err
    /\ 0 < settings.bp /\ settings.bp <= image.h
    /\ \E r \in (image.h - settings.bp)..(image.h - 1) :
         /\ \E x \in 0..(image.w - 1) :
               ~InSomeDest(r, x) /\ out1.img.px[r][x] = image.px[r][x]
                                 /\ out1.img.px[r][x] # ZeroPixel
         /\ \E x \in 0..(image.w - 1) :
               InSomeDest(r, x) /\ out1.img.px[r][x] # image.px[r][x]

\* ------------------------------------------------------------------- C3
\* C3: with bp = 0 the bottom-margin step is a no-op, so every pixel of the
\* returned buffer outside all destination regions is zero.
C3_ZeroOutsideBlocks ==
    (Applied /\ ~out1.err /\ settings.bp = 0) =>
        \A r \in 0..(image.h - 1), x \in 0..(image.w - 1) :
            ~InSomeDest(r, x) => out1.img.px[r][x] = ZeroPixel

\* ------------------------------------------------------------------- C4
\* The extents the image bounds leave of the source and destination regions
\* of the pair (i, j), along the rows and along the columns.
SrcRowExtent(i, j) == Extent(i * settings.b_height, settings.b_height, image.h)
SrcColExtent(i, j) == Extent(j * settings.b_width, settings.b_width, image.w)
DstRowExtent(i, j) == Extent(j * settings.b_height, settings.b_height, image.h)
DstColExtent(i, j) == Extent(i * settings.b_width, settings.b_width, image.w)

\* The truncated source of (i, j) does not fit its truncated destination:
\* along some axis the extents differ and the source extent is not 1.
ShapesClash(i, j) ==
    \/ SrcRowExtent(i, j) # DstRowExtent(i, j) /\ SrcRowExtent(i, j) # 1
    \/ SrcColExtent(i, j) # DstColExtent(i, j) /\ SrcColExtent(i, j) # 1

\* C4 as stated: whenever the block grid extends past the image, no error is
\* raised, a buffer is returned, and for each pair the part common to the
\* truncated source and the truncated destination, anchored at the start of
\* each range, is copied.
C4_NeverAnError ==
    (Applied /\ ~AllRegionsInside) =>
        /\ ~out1.err
        /\ \A p \in Pairs :
             \A dr \in 0..(Min(SrcRowExtent(p[1], p[2]), DstRowExtent(p[1], p[2])) - 1),
                dc \in 0..(Min(SrcColExtent(p[1], p[2]), DstColExtent(p[1], p[2])) - 1) :
                out1.img.px[p[2] * settings.b_height + dr][p[1] * settings.b_width + dc]
                  = image.px[p[1] * settings.b_height + dr][p[2] * settings.b_width + dc]

\* C4 (amended): when the block grid extends past the image, reshuffle_image
\* raises an error exactly when some pair's truncated source does not fit its
\* truncated destination; otherwise it returns a buffer in which every pixel
\* of every truncated destination region holds the content of the truncated
\* source region.
C4_ErrorIffShapesClash ==
    (Applied /\ ~AllRegionsInside) =>
        /\ out1.err <=> \E p \in Pairs : ShapesClash(p[1], p[2])
        /\ ~out1.err =>
             \A p \in Pairs :
               \A r \in 0..(image.h - 1), x \in 0..(image.w - 1) :
                  InDest(r, x, p[1], p[2]) =>
                      out1.img.px[r][x] = BlockContent(r, x, p[1], p[2])

\* A 2 x 2 grid of 2 x 2 blocks on a 3 x 3 image: the pair (0, 1) would copy
\* a 2 x 1 source into a 1 x 2 destination, and the call raised.
C4_Witness ==
    /\ rpc = "once" /\ ~AllRegionsInside /\ out1.err
    /\ image.h = 3 /\ image.w = 3
    /\ settings.b_height = 2 /\ settings.b_width = 2
    /\ settings.h_blocks = 2 /\ settings.v_blocks = 2
    /\ ShapesClash(0, 1)

\* A grid past the image whose truncated regions fit: a buffer is returned
\* and a destination cut to one row holds the source's row.
C4_WitnessTruncated ==
    /\ rpc = "once" /\ ~AllRegionsInside /\ ~out1.err
    /\ settings.b_height = 2
    /\ \E p \in Pairs :
         /\ DstRowExtent(p[1], p[2]) = 1 /\ DstColExtent(p[1], p[2]) >= 1
         /\ out1.img.px[p[2] * settings.b_height][p[1] * settings.b_width]
              = image.px[p[1] * settings.b_height][p[2] * settings.b_width]
         /\ image.px[p[1] * settings.b_height][p[2] * settings.b_width] # ZeroPixel

\* ------------------------------------------------------------------- C5
Square ==
    /\ settings.h_blocks = settings.v_blocks
    /\ settings.b_height = settings.b_width

\* C5 as stated: for hc = vc and bh = bw, reshuffling twice with the same
\* settings returns the original image exactly.
C5_SelfInverse ==
    Square =>
        /\ Applied => ~out1.err
        /\ rpc = "twice" => (~out2.err /\ out2.img = image)

\* The side of the square the grid occupies.
GridSide == settings.h_blocks * settings.b_height

\* Row r is one the bottom-margin step copies.
MarginRow(r) ==
    \/ settings.bp = 0
    \/ r >= image.h - settings.bp

\* Every pixel outside the grid lies in a row the bottom-margin step copies.
GridAndMarginCover ==
    \A r \in 0..(image.h - 1), x \in 0..(image.w - 1) :
        (r >= GridSide \/ x >= GridSide) => MarginRow(r)

\* C5 (amended): for hc = vc and bh = bw, when the grid lies inside the image
\* and the grid together with the rows copied by the bottom-margin step (all
\* rows when bp = 0) covers the whole image, reshuffling twice with the same
\* settings returns the original image exactly.
C5_SelfInverseWhenCovered ==
    (Square /\ GridSide <= image.h /\ GridSide <= image.w /\ GridAndMarginCover) =>
        /\ Applied => ~out1.err
        /\ rpc = "twice" => (~out2.err /\ out2.img = image)

\* Two applications restored an image that the first one had changed, with a
\* margin that is neither empty nor the whole image.
C5_Witness ==
    /\ rpc = "twice" /\ Square
    /\ GridSide <= image.h /\ GridSide <= image.w /\ GridAndMarginCover
    /\ settings.bp > 0 /\ settings.bp < image.h
    /\ out1.img # image
    /\ out2.img = image

\* ------------------------------------------------------------------- C9
WorkingRectangleFits ==
    /\ settings.v_blocks * settings.b_height <= image.h
    /\ settings.h_blocks * settings.b_width <= image.w

\* The rectangle the source regions occupy: hc blocks down, vc blocks across.
SourceRectangleFits ==
    /\ settings.h_blocks * settings.b_height <= image.h
    /\ settings.v_blocks * settings.b_width <= image.w

\* No slice of the pair (i, j) is cut by the image bounds.
Untruncated(i, j) ==
    /\ SliceLen(SrcRows(image, settings, i, j)) = settings.b_height
    /\ SliceLen(SrcCols(image, settings, i, j)) = settings.b_width
    /\ SliceLen(DstRows(image, settings, i, j)) = settings.b_height
    /\ SliceLen(DstCols(image, settings, i, j)) = settings.b_width

\* C9 as stated: if vc*bh <= height and hc*bw <= width then every source and
\* destination region lies inside the image and reshuffle_image completes
\* without error and without truncating any block.
C9_WorkingRectangleSuffices ==
    (Applied /\ WorkingRectangleFits) =>
        /\ AllRegionsInside
        /\ ~out1.err
        /\ \A p \in Pairs : Untruncated(p[1], p[2])

\* C9 (amended): if the working rectangle fits (vc*bh <= height and
\* hc*bw <= width) and the rectangle of the source regions fits as well
\* (hc*bh <= height and vc*bw <= width), then every source and destination
\* region lies inside the image and reshuffle_image completes without error
\* and without truncating any block, including when hc # vc.
C9_BothRectanglesSuffice ==
    (Applied /\ WorkingRectangleFits /\ SourceRectangleFits) =>
        /\ AllRegionsInside
        /\ ~out1.err
        /\ \A p \in Pairs : Untruncated(p[1], p[2])

\* A run with hc # vc in which both rectangles fit and a block moved.
C9_Witness ==
    /\ rpc = "once" /\ WorkingRectangleFits /\ SourceRectangleFits
    /\ settings.h_blocks # settings.v_blocks
    /\ ~out1.err
    /\ out1.img.px[0][1] = image.px[1][0]
    /\ image.px[1][0] # image.px[0][1]

\* ------------------------------------------------------------------- C6
\* C6: for two buffers A of shape (H, W1, C) and B of shape (H, W2, C),
\* join_images([A, B]) raises nothing and has shape (H, W1+W2, C); its
\* columns [0, W1) equal A and its columns [W1, W1+W2) equal B, row by row.
C6_JoinGeometry ==
    (join_called /\ reshuffled_images[1].h = reshuffled_images[2].h
                 /\ reshuffled_images[1].c = reshuffled_images[2].c) =>
        LET A == reshuffled_images[1]
            B == reshuffled_images[2]
        IN  /\ Len(to_save) = 1
            /\ LET J == to_save[1].img
               IN  /\ J.h = A.h /\ J.w = A.w + B.w /\ J.c = A.c
                   /\ DOMAIN J.px = 0..(A.h - 1)
                   /\ \A r \in 0..(A.h - 1) :
                        /\ DOMAIN J.px[r] = 0..(A.w + B.w - 1)
                        /\ \A x \in 0..(A.w - 1) : J.px[r][x] = A.px[r][x]
                        /\ \A x \in A.w..(A.w + B.w - 1) : J.px[r][x] = B.px[r][x - A.w]

\* Two buffers of equal height and different widths and contents were joined.
C6_Witness ==
    /\ join_called /\ Len(to_save) = 1
    /\ reshuffled_images[1].w = 2 /\ reshuffled_images[2].w = 3
    /\ to_save[1].img.w = 5
    /\ reshuffled_images[1].px[0][0] # reshuffled_images[2].px[0][0]

\* ------------------------------------------------------------------- C7
WrittenNames == [k \in 1..Len(written) |-> written[k].name]

\* C7: join_images is called only when the join flag is set and exactly two
\* images were reshuffled; a run that ends normally has then written exactly
\* one file, reshuffled_<stem of first>_<name of second>, and has otherwise
\* written one file per input image, reshuffled_<file name>, in input order.
C7_JoinDecisionAndNames ==
    /\ join_called => (join_enabled /\ Len(reshuffled_images) = 2)
    /\ pc \in {"save", "done"} =>
         (join_called <=> (join_enabled /\ Len(reshuffled_images) = 2))
    /\ pc = "done" =>
         IF join_enabled /\ Len(image_list) = 2
         THEN WrittenNames =
                << <<"reshuffled_">> \o PathStem(image_list[1]) \o <<"_">>
                                     \o PathName(image_list[2]) >>
         ELSE WrittenNames =
                [k \in 1..Len(image_list) |-> <<"reshuffled_">> \o PathName(image_list[k])]

\* A joined run over a.png and b.jpg wrote the single file reshuffled_a_b.jpg.
C7_Witness ==
    /\ pc = "done" /\ join_enabled /\ join_called
    /\ image_list = << <<"a", ".", "png">>, <<"b", ".", "jpg">> >>
    /\ WrittenNames = << <<"reshuffled_", "a", "_", "b", ".", "jpg">> >>

\* A run with the join flag and three images wrote three files.
C7_WitnessThree ==
    /\ pc = "done" /\ join_enabled /\ ~join_called
    /\ Len(image_list) = 3 /\ Len(written) = 3
    /\ WrittenNames[3] = <<"reshuffled_">> \o PathName(image_list[3])

\* ------------------------------------------------------------------- C8
\* The paths handed to load_files.
ResolverInput == IF file_list # <<>> THEN file_list ELSE IterDir(folder_path)

\* An existing file whose extension is one of .png, .jpg, .jpeg.
Qualifies(p) == IsFile(p) /\ PathSuffix(p) \in IMAGE_EXTS

\* C8: load_files returns exactly the input paths, in input order, that are
\* existing files with an extension of the allow-list; when none qualifies
\* NoImagesError ends the run with nothing decoded, reshuffled or written.
C8_FileSetResolver ==
    (pc # "resolve" /\ (file_list # <<>> \/ IsDir(folder_path))) =>
        LET expected == SelectSeq(ResolverInput, Qualifies)
        IN  IF expected = <<>>
            THEN /\ pc = "aborted" /\ failure = "NoImagesError"
                 /\ image_list = <<>> /\ reshuffled_images = <<>> /\ written = <<>>
            ELSE /\ image_list = expected
                 /\ failure # "NoImagesError"

\* The resolver kept two of three paths, in their order.
C8_Witness ==
    /\ pc = "process"
    /\ file_list = << <<"d", ".", "PNG">>, <<"b", ".", "jpg">>, <<"a", ".", "png">> >>
    /\ image_list = << <<"b", ".", "jpg">>, <<"a", ".", "png">> >>

\* ------------------------------------------------------------------ C10
\* C10: no file is written before every resolved image has been decoded and
\* reshuffled, and a run that a decoding or reshuffling failure ended has
\* written no file.
C10_DecodeBeforeWrite ==
    /\ written # <<>> =>
         /\ image_list # <<>>
         /\ Len(reshuffled_images) = Len(image_list)
         /\ \A k \in 1..Len(image_list) :
              /\ FileKind(image_list[k]) = "image"
              /\ reshuffled_images[k].h = Disk[image_list[k]].img.h
              /\ reshuffled_images[k].w = Disk[image_list[k]].img.w
    /\ failure \in {"DecodeError", "ValueError"} => written = <<>>

\* The same ordering as a property of every step: a step that writes a file
\* starts from a state in which all images are already reshuffled.
C10_WriteStepsComeLast ==
    [][written' # written => Len(reshuffled_images) = Len(image_list)]_vars

\* The last image of a batch of three failed to decode after two images had
\* been reshuffled, and nothing was written.
C10_Witness ==
    /\ pc = "aborted" /\ failure = "DecodeError"
    /\ Len(image_list) = 3 /\ Len(reshuffled_images) = 2
    /\ written = <<>>

====
